---- MODULE Spec2Model ----
(***************************************************************************)
(* Model of the three asset-preparation scripts of koharu:                 *)
(*   scripts/convert_font_labels.py     (Legacy Label Extractor)           *)
(*   scripts/convert_font_detection.py  (Tensor Archive Converter)         *)
(*   scripts/cuda.py                    (Native Dependency Fetcher)        *)
(* Each script is a single synchronous run of main(); a run is modelled    *)
(* statement by statement, every statement that can raise having a         *)
(* failing branch.  The three scripts share no state, so each has its own  *)
(* specification (SpecLabels, SpecConvert, SpecCuda) over its own          *)
(* variables; the variables of the other two scripts stay at rest.         *)
(***************************************************************************)
EXTENDS Integers, Sequences, FiniteSets, TLC

\* ------------------------------------------------------------------------
\* Bounds
\* ------------------------------------------------------------------------

\* longest root sequence of the legacy label graph that is enumerated
MaxRecords == 3

\* ------------------------------------------------------------------------
\* Python values that reach the label extractor
\* ------------------------------------------------------------------------

\* None
None == [t |-> "none", v |-> ""]

\* a str object
Str(s) == [t |-> "str", v |-> s]

\* a bytes object: a non-null value json cannot encode
Bytes == [t |-> "bytes", v |-> "x"]

\* json.dump encodes str and None; a bytes object raises TypeError
Serializable(val) == val.t \in {"none", "str"}

\* an unpickled object: attrs is the set of attributes its __dict__ holds
\* (pickle restores __dict__ without calling DSFont.__init__)
Obj(attrs, p, l) == [attrs |-> attrs, path |-> p, language |-> l]

\* the objects a root sequence is drawn from
Records ==
    { Obj({"path", "language"}, Str("a.ttf"), Str("en")),
      Obj({"path", "language"}, None, Str("ja")),
      Obj({"path", "language"}, Str("b.ttf"), None),
      Obj({"path"}, Str("c.ttf"), None),
      Obj({"language"}, None, Str("en")),
      Obj({"path", "language"}, Str(""), Str("en")),
      Obj({"path", "language"}, Bytes, None) }

\* a str element (a mapping key, a character of a string): no attributes
StrItem == Obj({}, None, None)

\* sequences over S of length at most n
SeqUpTo(S, n) == UNION { [1..k -> S] : k \in 0..n }

\* the roots pickle.load can return
Roots ==
    { [kind |-> "list", items |-> s] : s \in SeqUpTo(Records, MaxRecords) }
    \cup { [kind |-> "scalar", items |-> <<>>],
           [kind |-> "record", items |-> <<>>],
           [kind |-> "mapping", items |-> <<StrItem>>],
           [kind |-> "string", items |-> <<StrItem, StrItem>>] }

\* iter(data): lists, mappings and strings are iterable, an int or a single
\* DSFont object is not
Iterable(root) == root.kind \in {"list", "mapping", "string"}

\* getattr(item, name, None)
getattr(item, name) == IF name \in item.attrs THEN item[name] ELSE None

\* ------------------------------------------------------------------------
\* Files: the output file of the label extractor is a sequence of the chunks
\* json.dump wrote
\* ------------------------------------------------------------------------

Tok(k) == [tok |-> k, path |-> None, language |-> None]

EntryTok(e) == [tok |-> "entry", path |-> e.path, language |-> e.language]

NoFile == [exists |-> FALSE, content |-> <<>>]

File(c) == [exists |-> TRUE, content |-> c]

\* content a previous successful run left at the output path
OldLabels == <<Tok("open"), EntryTok([path |-> Str("old.ttf"), language |-> None]), Tok("close")>>

\* json's iterencode(entries, indent=2): "[]" for the empty list, otherwise
\* "[", one chunk group per entry, "]"
JsonChunks(es) ==
    IF es = <<>> THEN <<Tok("empty")>>
    ELSE <<Tok("open")>> \o [i \in 1..Len(es) |-> EntryTok(es[i])] \o <<Tok("close")>>

\* an entry is encodable when both of its values are
EntrySerializable(t) == Serializable(t.path) /\ Serializable(t.language)

\* body of the for loop: the record is skipped when path is None
LoopBody_keepall(es, item) ==
    Append(es, [path |-> getattr(item, "path"), language |-> getattr(item, "language")])

LoopBody_prepend(es, item) ==
    IF getattr(item, "path") = None THEN es
    ELSE <<[path |-> getattr(item, "path"), language |-> getattr(item, "language")]>> \o es

LoopBody(es, item) ==
    IF getattr(item, "path") = None THEN es
    ELSE Append(es, [path |-> getattr(item, "path"), language |-> getattr(item, "language")])

\* ------------------------------------------------------------------------
\* Tensors, checkpoints and the tensor archive
\* ------------------------------------------------------------------------

Tensor(d, sh, b, c) == [dtype |-> d, shape |-> sh, bytes |-> b, contiguous |-> c]

\* the tensors a state dict is drawn from
Tensors ==
    { Tensor("F32", <<1>>, <<1, 2, 3, 4>>, TRUE),
      Tensor("F16", <<2>>, <<5, 6, 7, 8>>, TRUE),
      Tensor("F16", <<1, 1>>, <<9, 9>>, TRUE),
      Tensor("F32", <<1>>, <<1, 2, 3, 4>>, FALSE) }

\* tensor names, in the order the archive lays them out
NameOrder == <<"conv1.bias", "conv1.weight">>

Names == { NameOrder[i] : i \in 1..Len(NameOrder) }

StateDicts == UNION { [D -> Tensors] : D \in SUBSET Names }

\* a checkpoint file: ok is FALSE when torch.load cannot deserialize it
Checkpoints ==
    { [ok |-> TRUE, fields |-> {"epoch", "state_dict"}, state_dict |-> sd] : sd \in StateDicts }
    \cup { [ok |-> TRUE, fields |-> {"epoch"}, state_dict |-> <<>>],
           [ok |-> FALSE, fields |-> {}, state_dict |-> <<>>] }

NoState == [ok |-> FALSE, fields |-> {}, state_dict |-> <<>>]

\* state_dict = state["state_dict"]
StateDictOf_weights(st) ==
    [n \in (DOMAIN st.state_dict) \ {"conv1.bias"} |-> st.state_dict[n]]

StateDictOf(st) == st.state_dict

\* names of a state dict in archive order
Ordered(sd) == SelectSeq(NameOrder, LAMBDA n : n \in DOMAIN sd)

\* header of the archive: one entry per name with dtype, shape and the
\* offsets of its bytes in the data section
RECURSIVE HeaderFrom(_, _, _)
HeaderFrom(sd, ns, off) ==
    IF ns = <<>> THEN <<>>
    ELSE LET n == Head(ns)
             e == [name |-> n, dtype |-> sd[n].dtype, shape |-> sd[n].shape,
                   begin |-> off, end |-> off + Len(sd[n].bytes)]
         IN <<e>> \o HeaderFrom(sd, Tail(ns), e.end)

Header(sd) == HeaderFrom(sd, Ordered(sd), 0)

\* data section of the archive: the tensors' bytes in header order
RECURSIVE DataFrom(_, _)
DataFrom(sd, ns) ==
    IF ns = <<>> THEN <<>> ELSE sd[Head(ns)].bytes \o DataFrom(sd, Tail(ns))

ArchiveData(sd) == DataFrom(sd, Ordered(sd))

\* save_file refuses a tensor that is not contiguous before it writes
Flattenable(sd) == \A n \in DOMAIN sd : sd[n].contiguous

NoArchive == [exists |-> FALSE, hdr |-> FALSE, header |-> <<>>, data |-> <<>>]

\* a file at the output path: hdr tells whether the header was written
ArchiveFile(h, hd, d) == [exists |-> TRUE, hdr |-> h, header |-> hd, data |-> d]

\* archive a previous successful run left at the output path
OldArchive ==
    ArchiveFile(TRUE, <<[name |-> "old.weight", dtype |-> "F32", shape |-> <<1>>,
                         begin |-> 0, end |-> 4]>>, <<0, 0, 0, 0>>)

\* ------------------------------------------------------------------------
\* Packages and library files of the dependency fetcher
\* ------------------------------------------------------------------------

PACKAGES ==
    <<"nvidia-cuda-runtime-cu12", "nvidia-cudnn-cu12", "nvidia-cublas-cu12",
      "nvidia-cufft-cu12">>

\* a file under site-packages: pkg is the package that ships it ("venv": the
\* environment itself), kind its suffix class, nvidia whether its path
\* contains "nvidia"
LibFile(n, p, k, nv) == [name |-> n, pkg |-> p, kind |-> k, nvidia |-> nv]

\* "**/*.dll" on win32, "**/*.so*" elsewhere
Pattern(pf) == IF pf = "win32" THEN "dll" ELSE "so"

\* the files an installation can put under site-packages on a platform
FilesOn(pf) ==
    { LibFile("cudart", "nvidia-cuda-runtime-cu12", Pattern(pf), TRUE),
      LibFile("cudnn", "nvidia-cudnn-cu12", Pattern(pf), TRUE),
      LibFile("_speedups", "venv", Pattern(pf), FALSE),
      LibFile("__init__", "nvidia-cublas-cu12", "py", TRUE) }

\* site.glob(pattern)
Glob(files, pat) == { f \in files : f.kind = pat }

\* ------------------------------------------------------------------------
\* State
\* ------------------------------------------------------------------------
VARIABLES
    \* Legacy Label Extractor
    l_pc,          \* position in main()
    inputExists,   \* args.input.exists()
    inputRoot,     \* what the input file unpickles to ("corrupt": it does not)
    modules,       \* stub modules registered in sys.modules
    data,          \* result of pickle.load
    idx,           \* position of the for loop in data
    entries,       \* the list built by the loop
    outFile,       \* file at args.output
    out0,          \* file at args.output when the run started
    wpos,          \* number of json chunks written
    l_err,         \* how the run failed
    l_exit,        \* exit status: -1 while running
    deserAttempted,\* the input was opened for pickle.load
    openedOut,     \* the output was opened for writing
    \* Tensor Archive Converter
    v_pc,          \* position in main()
    ckpt,          \* what the remote checkpoint file deserializes to
    state,         \* result of torch.load
    state_dict,    \* state["state_dict"]
    archive,       \* file at args.output
    arch0,         \* file at args.output when the run started
    v_err,         \* how the run failed
    v_exit,        \* exit status: -1 while running
    saveReached,   \* save_file was called
    \* Native Dependency Fetcher
    c_pc,          \* position in main()
    platform,      \* sys.platform
    provided,      \* library files the venv and the packages carry
    tmp,           \* the temporary directory: "none", "live" or "removed"
    venvCreated,   \* python -m venv succeeded
    pkgIdx,        \* position of the install loop in PACKAGES
    installed,     \* packages pip installed successfully
    site,          \* library files present in site-packages
    todo,          \* files the copy loop has not visited yet
    copied,        \* names copied to the output directory by this run
    outDir,        \* names present in the output directory
    outDir0,       \* names present in the output directory at the start
    pending,       \* exception propagating out of the with block
    c_err,         \* how the run failed
    c_exit         \* exit status: -1 while running

labVars == <<l_pc, inputExists, inputRoot, modules, data, idx, entries, outFile,
             out0, wpos, l_err, l_exit, deserAttempted, openedOut>>

convVars == <<v_pc, ckpt, state, state_dict, archive, arch0, v_err, v_exit,
              saveReached>>

cudaVars == <<c_pc, platform, provided, tmp, venvCreated, pkgIdx, installed,
              site, todo, copied, outDir, outDir0, pending, c_err, c_exit>>

vars == <<labVars, convVars, cudaVars>>

Corrupt == [kind |-> "corrupt", items |-> <<>>]

NoData == [kind |-> "unset", items |-> <<>>]

\* the other two scripts are not running
IdleLabels ==
    /\ l_pc = "idle" /\ inputExists = FALSE /\ inputRoot = Corrupt
    /\ modules = {} /\ data = NoData /\ idx = 1 /\ entries = <<>>
    /\ outFile = NoFile /\ out0 = NoFile /\ wpos = 0 /\ l_err = "none"
    /\ l_exit = -1 /\ deserAttempted = FALSE /\ openedOut = FALSE

IdleConvert ==
    /\ v_pc = "idle" /\ ckpt = NoState /\ state = NoState /\ state_dict = <<>>
    /\ archive = NoArchive /\ arch0 = NoArchive /\ v_err = "none"
    /\ v_exit = -1 /\ saveReached = FALSE

IdleCuda ==
    /\ c_pc = "idle" /\ platform = "linux" /\ provided = {} /\ tmp = "none"
    /\ venvCreated = FALSE /\ pkgIdx = 1 /\ installed = {} /\ site = {}
    /\ todo = {} /\ copied = {} /\ outDir = {} /\ outDir0 = {}
    /\ pending = "none" /\ c_err = "none" /\ c_exit = -1

LRest == UNCHANGED <<convVars, cudaVars>>

VRest == UNCHANGED <<labVars, cudaVars>>

CRest == UNCHANGED <<labVars, convVars>>

InitLabels ==
    /\ l_pc = "start"
    /\ inputExists \in BOOLEAN
    /\ inputRoot \in Roots \cup {Corrupt}
    /\ modules = {}
    /\ data = NoData
    /\ idx = 1
    /\ entries = <<>>
    /\ out0 \in {NoFile, File(OldLabels)}
    /\ outFile = out0
    /\ wpos = 0
    /\ l_err = "none"
    /\ l_exit = -1
    /\ deserAttempted = FALSE
    /\ openedOut = FALSE
    /\ IdleConvert
    /\ IdleCuda

\* the run ends with an uncaught exception or sys.exit(message): status 1
LFail(e) ==
    /\ l_pc' = "failed"
    /\ l_err' = e
    /\ l_exit' = 1

\* if not args.input.exists(): sys.exit(...)
L_CheckInput_nocheck ==
    /\ l_pc = "start"
    /\ LRest
    /\ l_pc' = "shim"
    /\ UNCHANGED <<l_err, l_exit>>
    /\ UNCHANGED <<inputExists, inputRoot, modules, data, idx, entries, outFile,
                   out0, wpos, deserAttempted, openedOut>>

L_CheckInput ==
    /\ l_pc = "start"
    /\ LRest
    /\ IF ~inputExists
         THEN LFail("InputNotFound")
         ELSE l_pc' = "shim" /\ UNCHANGED <<l_err, l_exit>>
    /\ UNCHANGED <<inputExists, inputRoot, modules, data, idx, entries, outFile,
                   out0, wpos, deserAttempted, openedOut>>

\* register the stub modules font_dataset and font_dataset.font
L_RegisterShims ==
    /\ l_pc = "shim"
    /\ LRest
    /\ modules' = modules \cup {"font_dataset", "font_dataset.font"}
    /\ l_pc' = "load"
    /\ UNCHANGED <<inputExists, inputRoot, data, idx, entries, outFile, out0,
                   wpos, l_err, l_exit, deserAttempted, openedOut>>

\* with open(args.input, "rb") as f: data = pickle.load(f)
\* open raises when the file is missing or unreadable
L_Load_openfirst ==
    /\ l_pc = "load"
    /\ LRest
    /\ deserAttempted' = TRUE
    /\ outFile' = File(<<>>)
    /\ \/ /\ LFail("IOError")
          /\ UNCHANGED data
       \/ /\ inputExists
          /\ inputRoot = Corrupt \/ "font_dataset.font" \notin modules
          /\ LFail("UnpicklingError")
          /\ UNCHANGED data
       \/ /\ inputExists
          /\ inputRoot # Corrupt /\ "font_dataset.font" \in modules
          /\ data' = inputRoot
          /\ l_pc' = "iter"
          /\ UNCHANGED <<l_err, l_exit>>
    /\ UNCHANGED <<inputExists, inputRoot, modules, idx, entries, out0,
                   wpos, openedOut>>

L_Load ==
    /\ l_pc = "load"
    /\ LRest
    /\ deserAttempted' = TRUE
    /\ \/ /\ LFail("IOError")
          /\ UNCHANGED data
       \/ /\ inputExists
          /\ inputRoot = Corrupt \/ "font_dataset.font" \notin modules
          /\ LFail("UnpicklingError")
          /\ UNCHANGED data
       \/ /\ inputExists
          /\ inputRoot # Corrupt /\ "font_dataset.font" \in modules
          /\ data' = inputRoot
          /\ l_pc' = "iter"
          /\ UNCHANGED <<l_err, l_exit>>
    /\ UNCHANGED <<inputExists, inputRoot, modules, idx, entries, outFile, out0,
                   wpos, openedOut>>

\* entries = []; for item in data: iter(data) raises TypeError on a
\* non-iterable root
L_IterStart ==
    /\ l_pc = "iter"
    /\ LRest
    /\ entries' = <<>>
    /\ idx' = 1
    /\ IF Iterable(data)
         THEN l_pc' = "loop" /\ UNCHANGED <<l_err, l_exit>>
         ELSE LFail("TypeError")
    /\ UNCHANGED <<inputExists, inputRoot, modules, data, outFile, out0, wpos,
                   deserAttempted, openedOut>>

\* one pass of the loop body
L_LoopStep ==
    /\ l_pc = "loop"
    /\ LRest
    /\ idx <= Len(data.items)
    /\ entries' = LoopBody(entries, data.items[idx])
    /\ idx' = idx + 1
    /\ UNCHANGED <<l_pc, inputExists, inputRoot, modules, data, outFile, out0,
                   wpos, l_err, l_exit, deserAttempted, openedOut>>

\* args.output.parent.mkdir(parents=True, exist_ok=True)
L_Mkdir ==
    /\ l_pc = "loop"
    /\ LRest
    /\ idx > Len(data.items)
    /\ \/ l_pc' = "open_out" /\ UNCHANGED <<l_err, l_exit>>
       \/ LFail("IOError")
    /\ UNCHANGED <<inputExists, inputRoot, modules, data, idx, entries, outFile,
                   out0, wpos, deserAttempted, openedOut>>

\* open(args.output, "w"): creates or truncates the file
L_OpenOut ==
    /\ l_pc = "open_out"
    /\ LRest
    /\ \/ /\ outFile' = File(<<>>)
          /\ openedOut' = TRUE
          /\ wpos' = 0
          /\ l_pc' = "dump"
          /\ UNCHANGED <<l_err, l_exit>>
       \/ /\ LFail("IOError")
          /\ UNCHANGED <<outFile, openedOut, wpos>>
    /\ UNCHANGED <<inputExists, inputRoot, modules, data, idx, entries, out0,
                   deserAttempted>>

\* json.dump(entries, f, ...): one chunk per step; the with block closes the
\* file on an exception, which keeps what was written so far
L_DumpChunk ==
    /\ l_pc = "dump"
    /\ LRest
    /\ wpos < Len(JsonChunks(entries))
    /\ LET c == JsonChunks(entries)[wpos + 1] IN
       \/ /\ EntrySerializable(c)
          /\ outFile' = File(Append(outFile.content, c))
          /\ wpos' = wpos + 1
          /\ UNCHANGED <<l_pc, l_err, l_exit>>
       \/ /\ ~EntrySerializable(c)
          /\ outFile' = File(Append(outFile.content, Tok("partial")))
          /\ LFail("TypeError")
          /\ UNCHANGED wpos
       \/ /\ LFail("IOError")
          /\ UNCHANGED <<outFile, wpos>>
    /\ UNCHANGED <<inputExists, inputRoot, modules, data, idx, entries, out0,
                   deserAttempted, openedOut>>

\* the with block closes the file; print(f"Wrote {len(entries)} labels ...")
L_Finish ==
    /\ l_pc = "dump"
    /\ LRest
    /\ wpos = Len(JsonChunks(entries))
    /\ l_pc' = "done"
    /\ l_exit' = 0
    /\ UNCHANGED <<inputExists, inputRoot, modules, data, idx, entries, outFile,
                   out0, wpos, l_err, deserAttempted, openedOut>>

NextLabels ==
    \/ L_CheckInput
    \/ L_RegisterShims
    \/ L_Load
    \/ L_IterStart
    \/ L_LoopStep
    \/ L_Mkdir
    \/ L_OpenOut
    \/ L_DumpChunk
    \/ L_Finish

SpecLabels == InitLabels /\ [][NextLabels]_vars

\* ------------------------------------------------------------------------
\* Tensor Archive Converter: main() of convert_font_detection.py
\* ------------------------------------------------------------------------

InitConvert ==
    /\ v_pc = "start"
    /\ ckpt \in Checkpoints
    /\ state = NoState
    /\ state_dict = <<>>
    /\ arch0 \in {NoArchive, OldArchive}
    /\ archive = arch0
    /\ v_err = "none"
    /\ v_exit = -1
    /\ saveReached = FALSE
    /\ IdleLabels
    /\ IdleCuda

\* the run ends with an uncaught exception: status 1
VFail(e) ==
    /\ v_pc' = "failed"
    /\ v_err' = e
    /\ v_exit' = 1

\* args.output.parent.mkdir(parents=True, exist_ok=True)
V_Mkdir ==
    /\ v_pc = "start"
    /\ VRest
    /\ \/ v_pc' = "download" /\ UNCHANGED <<v_err, v_exit>>
       \/ VFail("IOError")
    /\ UNCHANGED <<ckpt, state, state_dict, archive, arch0, saveReached>>

\* ckpt_path = hf_hub_download(repo_id=REPO_ID, filename=args.checkpoint)
V_Download ==
    /\ v_pc = "download"
    /\ VRest
    /\ \/ v_pc' = "load" /\ UNCHANGED <<v_err, v_exit>>
       \/ VFail("RetrievalError")
    /\ UNCHANGED <<ckpt, state, state_dict, archive, arch0, saveReached>>

\* state = torch.load(ckpt_path, map_location="cpu")
V_Load ==
    /\ v_pc = "load"
    /\ VRest
    /\ IF ckpt.ok
         THEN state' = ckpt /\ v_pc' = "check" /\ UNCHANGED <<v_err, v_exit>>
         ELSE VFail("UnpicklingError") /\ UNCHANGED state
    /\ UNCHANGED <<ckpt, state_dict, archive, arch0, saveReached>>

\* if "state_dict" not in state: raise RuntimeError(...)
\* state_dict = state["state_dict"]
V_CheckStateDict_default ==
    /\ v_pc = "check"
    /\ VRest
    /\ state_dict' = StateDictOf(state)
    /\ v_pc' = "save"
    /\ UNCHANGED <<v_err, v_exit>>
    /\ UNCHANGED <<ckpt, state, archive, arch0, saveReached>>

V_CheckStateDict ==
    /\ v_pc = "check"
    /\ VRest
    /\ IF "state_dict" \notin state.fields
         THEN VFail("MissingStateDict") /\ UNCHANGED state_dict
         ELSE /\ state_dict' = StateDictOf(state)
              /\ v_pc' = "save"
              /\ UNCHANGED <<v_err, v_exit>>
    /\ UNCHANGED <<ckpt, state, archive, arch0, saveReached>>

\* save_file(state_dict, str(args.output)); print("Done.")
\* save_file validates the tensors, creates the file at the output path and
\* writes the header and then the data to it
V_SaveFile ==
    /\ v_pc = "save"
    /\ VRest
    /\ saveReached' = TRUE
    /\ \/ /\ ~Flattenable(state_dict)
          /\ VFail("ValueError")
          /\ UNCHANGED archive
       \/ /\ Flattenable(state_dict)
          /\ \/ /\ VFail("IOError")
                /\ \/ UNCHANGED archive
                   \/ archive' = ArchiveFile(FALSE, <<>>, <<>>)
                   \/ \E k \in 0..(Len(ArchiveData(state_dict)) - 1) :
                        archive' = ArchiveFile(TRUE, Header(state_dict),
                                               SubSeq(ArchiveData(state_dict), 1, k))
             \/ /\ archive' = ArchiveFile(TRUE, Header(state_dict), ArchiveData(state_dict))
                /\ v_pc' = "done"
                /\ v_exit' = 0
                /\ UNCHANGED v_err
    /\ UNCHANGED <<ckpt, state, state_dict, arch0>>

NextConvert ==
    \/ V_Mkdir
    \/ V_Download
    \/ V_Load
    \/ V_CheckStateDict
    \/ V_SaveFile

SpecConvert == InitConvert /\ [][NextConvert]_vars

\* ------------------------------------------------------------------------
\* Native Dependency Fetcher: main() of cuda.py
\* ------------------------------------------------------------------------

InitCuda ==
    /\ c_pc = "start"
    /\ platform \in {"win32", "linux"}
    /\ provided \in SUBSET FilesOn(platform)
    /\ tmp = "none"
    /\ venvCreated = FALSE
    /\ pkgIdx = 1
    /\ installed = {}
    /\ site = {}
    /\ todo = {}
    /\ copied = {}
    /\ outDir0 \in {{}, {"cudart"}, {"stale"}}
    /\ outDir = outDir0
    /\ pending = "none"
    /\ c_err = "none"
    /\ c_exit = -1
    /\ IdleLabels
    /\ IdleConvert

\* the run ends with an uncaught exception: status 1
CFail(e) ==
    /\ c_pc' = "failed"
    /\ c_err' = e
    /\ c_exit' = 1

\* an exception raised inside the with block: the block is left through
\* TemporaryDirectory.__exit__
CRaise(e) ==
    /\ pending' = e
    /\ c_pc' = "exit_with"

\* output.mkdir(exist_ok=True)
C_MkOutput ==
    /\ c_pc = "start"
    /\ CRest
    /\ \/ c_pc' = "tmp" /\ UNCHANGED <<c_err, c_exit>>
       \/ CFail("IOError")
    /\ UNCHANGED <<platform, provided, tmp, venvCreated, pkgIdx, installed, site,
                   todo, copied, outDir, outDir0, pending>>

\* with tempfile.TemporaryDirectory() as tmp:
C_EnterWith ==
    /\ c_pc = "tmp"
    /\ CRest
    /\ \/ tmp' = "live" /\ c_pc' = "venv" /\ UNCHANGED <<c_err, c_exit>>
       \/ CFail("IOError") /\ UNCHANGED tmp
    /\ UNCHANGED <<platform, provided, venvCreated, pkgIdx, installed, site,
                   todo, copied, outDir, outDir0, pending>>

\* subprocess.run([sys.executable, "-m", "venv", str(venv)], check=True)
C_CreateVenv ==
    /\ c_pc = "venv"
    /\ CRest
    /\ \/ /\ venvCreated' = TRUE
          /\ site' = { f \in provided : f.pkg = "venv" }
          /\ pkgIdx' = 1
          /\ c_pc' = "install"
          /\ UNCHANGED pending
       \/ /\ CRaise("VenvError")
          /\ UNCHANGED <<venvCreated, site, pkgIdx>>
    /\ UNCHANGED <<platform, provided, tmp, installed, todo, copied, outDir,
                   outDir0, c_err, c_exit>>

\* for pkg in PACKAGES: subprocess.run([pip, "install", "-q", pkg], check=True)
C_Install_unchecked ==
    /\ c_pc = "install"
    /\ CRest
    /\ pkgIdx <= Len(PACKAGES)
    /\ \/ /\ installed' = installed \cup {PACKAGES[pkgIdx]}
          /\ site' = site \cup { f \in provided : f.pkg = PACKAGES[pkgIdx] }
       \/ UNCHANGED <<installed, site>>
    /\ pkgIdx' = pkgIdx + 1
    /\ UNCHANGED <<c_pc, pending>>
    /\ UNCHANGED <<platform, provided, tmp, venvCreated, todo, copied, outDir,
                   outDir0, c_err, c_exit>>

C_Install ==
    /\ c_pc = "install"
    /\ CRest
    /\ pkgIdx <= Len(PACKAGES)
    /\ \/ /\ installed' = installed \cup {PACKAGES[pkgIdx]}
          /\ site' = site \cup { f \in provided : f.pkg = PACKAGES[pkgIdx] }
          /\ pkgIdx' = pkgIdx + 1
          /\ UNCHANGED <<c_pc, pending>>
       \/ /\ CRaise("InstallationError")
          /\ UNCHANGED <<installed, site, pkgIdx>>
    /\ UNCHANGED <<platform, provided, tmp, venvCreated, todo, copied, outDir,
                   outDir0, c_err, c_exit>>

\* site = .../site-packages; pattern by platform; site.glob(pattern)
\* (next(...glob("python3.*")) finds the directory a successful venv made)
C_Locate ==
    /\ c_pc = "install"
    /\ CRest
    /\ pkgIdx > Len(PACKAGES)
    /\ todo' = Glob(site, Pattern(platform))
    /\ c_pc' = "copy"
    /\ UNCHANGED <<platform, provided, tmp, venvCreated, pkgIdx, installed, site,
                   copied, outDir, outDir0, pending, c_err, c_exit>>

\* for lib in site.glob(pattern): if "nvidia" in str(lib): shutil.copy2(...)
C_CopyStep ==
    /\ c_pc = "copy"
    /\ CRest
    /\ \E lib \in todo :
         /\ todo' = todo \ {lib}
         /\ \/ /\ lib.nvidia
               /\ outDir' = outDir \cup {lib.name}
               /\ copied' = copied \cup {lib.name}
               /\ UNCHANGED <<c_pc, pending>>
            \/ /\ lib.nvidia
               /\ CRaise("IOError")
               /\ UNCHANGED <<outDir, copied>>
            \/ /\ ~lib.nvidia
               /\ UNCHANGED <<outDir, copied, c_pc, pending>>
    /\ UNCHANGED <<platform, provided, tmp, venvCreated, pkgIdx, installed, site,
                   outDir0, c_err, c_exit>>

\* leaving the with block, normally or with an exception, removes the
\* temporary directory; then print(...) or the exception ends the run
C_ExitWith_leak ==
    /\ c_pc = "exit_with" \/ (c_pc = "copy" /\ todo = {})
    /\ CRest
    /\ IF pending # "none"
         THEN CFail(pending)
         ELSE c_pc' = "done" /\ c_exit' = 0 /\ UNCHANGED c_err
    /\ UNCHANGED <<platform, provided, tmp, venvCreated, pkgIdx, installed, site,
                   todo, copied, outDir, outDir0, pending>>

C_ExitWith ==
    /\ c_pc = "exit_with" \/ (c_pc = "copy" /\ todo = {})
    /\ CRest
    /\ tmp' = "removed"
    /\ IF pending # "none"
         THEN CFail(pending)
         ELSE c_pc' = "done" /\ c_exit' = 0 /\ UNCHANGED c_err
    /\ UNCHANGED <<platform, provided, venvCreated, pkgIdx, installed, site,
                   todo, copied, outDir, outDir0, pending>>

NextCuda ==
    \/ C_MkOutput
    \/ C_EnterWith
    \/ C_CreateVenv
    \/ C_Install
    \/ C_Locate
    \/ C_CopyStep
    \/ C_ExitWith

SpecCuda == InitCuda /\ [][NextCuda]_vars

\* ------------------------------------------------------------------------
\* Properties of the Legacy Label Extractor (SpecLabels)
\* ------------------------------------------------------------------------

\* the label list a file holds: ok is FALSE when the content is not a
\* complete JSON array (zero bytes, or cut short)
JsonParse(c) ==
    IF c = <<Tok("empty")>> THEN [ok |-> TRUE, list |-> <<>>]
    ELSE IF /\ Len(c) >= 3
            /\ c[1] = Tok("open")
            /\ c[Len(c)] = Tok("close")
            /\ \A i \in 2..(Len(c) - 1) : c[i].tok = "entry"
         THEN [ok |-> TRUE,
               list |-> [i \in 1..(Len(c) - 2) |->
                           [path |-> c[i + 1].path, language |-> c[i + 1].language]]]
         ELSE [ok |-> FALSE, list |-> <<>>]

\* a source record carries a non-null path
HasPath(r) == "path" \in r.attrs /\ r.path # None

\* the source sequence restricted to the records with a non-null path, each
\* as {path, language}, language null when the source has none
Restricted(items) ==
    LET kept == SelectSeq(items, HasPath)
    IN [i \in 1..Len(kept) |->
          [path |-> kept[i].path,
           language |-> IF "language" \in kept[i].attrs THEN kept[i].language ELSE None]]

\* the file at the output path is zero-byte or partially written
ZeroOrPartial(f) == f.exists /\ ~JsonParse(f.content).ok

\* C1: the label list written by a successful run is exactly the source
\* sequence restricted to the records with a non-null path, in source order,
\* each kept as {path, language}, and is no longer than the source
C1_FilteredInOrder ==
    (l_pc = "done" /\ inputRoot.kind = "list") =>
        /\ JsonParse(outFile.content).ok
        /\ JsonParse(outFile.content).list = Restricted(inputRoot.items)
        /\ Len(JsonParse(outFile.content).list) <= Len(inputRoot.items)

\* a run on the three-record example has written its two kept entries
C1_Witness ==
    /\ l_pc = "done"
    /\ inputRoot.kind = "list"
    /\ inputRoot.items = <<Obj({"path", "language"}, Str("a.ttf"), Str("en")),
                           Obj({"path", "language"}, None, Str("ja")),
                           Obj({"path", "language"}, Str("b.ttf"), None)>>
    /\ Len(JsonParse(outFile.content).list) = 2

\* C2 as stated: every entry of the written label list has a path that is a
\* non-empty string
C2_PathNonEmptyString ==
    l_pc = "done" =>
        \A i \in 1..Len(JsonParse(outFile.content).list) :
            /\ JsonParse(outFile.content).list[i].path.t = "str"
            /\ JsonParse(outFile.content).list[i].path.v # ""

\* C2 amended: every entry of the written label list has a non-null path
C2_PathNonNull ==
    l_pc = "done" =>
        \A i \in 1..Len(JsonParse(outFile.content).list) :
            JsonParse(outFile.content).list[i].path # None

\* a written label list that holds an entry whose path is the empty string
C2_Witness ==
    /\ l_pc = "done"
    /\ \E i \in 1..Len(JsonParse(outFile.content).list) :
           JsonParse(outFile.content).list[i].path = Str("")

\* C3: when a run ends in an error, the output path does not hold a
\* zero-byte or partially written file
C3_NoPartialOnError ==
    l_pc = "failed" => ~ZeroOrPartial(outFile)

\* C5: with a missing input the run fails with the input-not-found error,
\* the input is never opened for deserialization and the output path is
\* left as it was
C5_MissingInputFailsFirst ==
    ~inputExists =>
        /\ ~deserAttempted
        /\ ~openedOut
        /\ outFile = out0
        /\ l_pc # "done"
        /\ l_pc = "failed" => (l_err = "InputNotFound" /\ l_exit = 1)

\* a run on a missing input has ended
C5_Witness ==
    ~inputExists /\ l_pc = "failed" /\ l_err = "InputNotFound"

\* C6: a root that is not a sequence of records never leads to a zero exit
\* with a written label list
C6_NonSequenceRootFails ==
    inputRoot.kind \in {"scalar", "record", "mapping", "string"} =>
        ~(l_pc = "done" /\ l_exit = 0 /\ outFile.exists /\ openedOut)

\* C10: the output is opened only after the input was deserialized and every
\* record was visited, and a run that failed before that point left the file
\* at the output path as it was
C10_OutputOpenedLast ==
    /\ openedOut => (data # NoData /\ Iterable(data) /\ idx > Len(data.items))
    /\ (l_pc = "failed" /\ (data = NoData \/ ~Iterable(data))) => outFile = out0

\* a run over an existing output file failed on a root that cannot be iterated
C10_Witness ==
    /\ l_pc = "failed"
    /\ out0.exists
    /\ data # NoData
    /\ ~Iterable(data)
    /\ l_err = "TypeError"

\* ------------------------------------------------------------------------
\* Properties of the Tensor Archive Converter (SpecConvert)
\* ------------------------------------------------------------------------

\* the tensor an archive holds under its i-th header entry
ReadTensor(f, i) ==
    [dtype |-> f.header[i].dtype, shape |-> f.header[i].shape,
     bytes |-> SubSeq(f.data, f.header[i].begin + 1, f.header[i].end)]

\* C4: a container without a state-dict field makes the run fail with the
\* missing-state-dict error; save_file is never reached and the output path
\* is left as it was
C4_MissingStateDictFailsFirst ==
    (state # NoState /\ "state_dict" \notin state.fields) =>
        /\ ~saveReached
        /\ archive = arch0
        /\ v_pc \in {"check", "failed"}
        /\ v_pc = "failed" => (v_err = "MissingStateDict" /\ v_exit = 1)

\* a run on a container without a state-dict field has ended
C4_Witness ==
    /\ v_pc = "failed"
    /\ v_err = "MissingStateDict"
    /\ "state_dict" \notin state.fields

\* C7: a successful run writes an archive with exactly one entry per source
\* name, whose dtype, shape and bytes are those of the source tensor
C7_ArchiveMatchesStateDict ==
    v_pc = "done" =>
        LET sd == ckpt.state_dict IN
        /\ archive.exists /\ archive.hdr
        /\ Len(archive.header) = Cardinality(DOMAIN sd)
        /\ { archive.header[i].name : i \in 1..Len(archive.header) } = DOMAIN sd
        /\ \A i, j \in 1..Len(archive.header) :
               archive.header[i].name = archive.header[j].name => i = j
        /\ \A i \in 1..Len(archive.header) :
               LET t == sd[archive.header[i].name] IN
               ReadTensor(archive, i) =
                   [dtype |-> t.dtype, shape |-> t.shape, bytes |-> t.bytes]

\* a run on a state dict of two tensors has written its archive
C7_Witness ==
    /\ v_pc = "done"
    /\ Cardinality(DOMAIN ckpt.state_dict) = 2
    /\ Len(archive.header) = 2

\* ------------------------------------------------------------------------
\* Properties of the Native Dependency Fetcher (SpecCuda)
\* ------------------------------------------------------------------------

AllPackages == { PACKAGES[i] : i \in 1..Len(PACKAGES) }

\* C8: a library is copied only after the environment was created and every
\* listed package was installed; a run that failed at either step exits
\* non-zero and has copied nothing
C8_CopyOnlyAfterAllInstalled ==
    /\ (copied # {} \/ outDir # outDir0) => (venvCreated /\ installed = AllPackages)
    /\ (c_pc = "failed" /\ (~venvCreated \/ installed # AllPackages)) =>
           (copied = {} /\ outDir = outDir0 /\ c_exit = 1)
    /\ c_pc = "done" => installed = AllPackages

\* a run failed at a package installation, after an earlier one succeeded
C8_Witness ==
    /\ c_pc = "failed"
    /\ c_err = "InstallationError"
    /\ installed # {}
    /\ copied = {}

\* C9: in every terminal state the temporary directory of the run is gone
C9_EnvDiscardedAtEnd ==
    c_pc \in {"done", "failed"} => tmp # "live"

\* a run that failed at a copy has removed the temporary directory it made
C9_Witness ==
    /\ c_pc = "failed"
    /\ c_err = "IOError"
    /\ copied # {}
    /\ tmp = "removed"

====
